---- MODULE Spec2Model ----
(***************************************************************************)
(* A model of netlify/functions/ado_webhook.py: the Netlify function that  *)
(* authenticates an Azure DevOps webhook call, parses its JSON body,       *)
(* formats a Google Chat card for the event types it knows and posts the   *)
(* card to the configured chat webhook.                                    *)
(*                                                                         *)
(* Python str values are sequences of one-character strings, so that       *)
(* substring tests, split, strip, replace, lower and the base64 decoding   *)
(* are computed character by character as the interpreter computes them.   *)
(* A Python value is a record tagged by its type (field k); an expression  *)
(* that raises evaluates to a record tagged "raise", which every operator  *)
(* below passes on unchanged, as an exception unwinds an expression.       *)
(***************************************************************************)
EXTENDS Naturals, Sequences, FiniteSets, TLC

\* -------------------------------------------------------------------------
\* Python str operations (on sequences of characters)
\* -------------------------------------------------------------------------

\* str.startswith(prefix)
StartsWith(s, prefix) ==
  /\ Len(s) >= Len(prefix)
  /\ SubSeq(s, 1, Len(prefix)) = prefix

\* str.find(sub, start) with 1-based positions; 0 when sub does not occur
Find(s, sub, start) ==
  LET hits == { j \in start..(Len(s) - Len(sub) + 1) :
                   SubSeq(s, j, j + Len(sub) - 1) = sub }
  IN  IF hits = {} THEN 0 ELSE CHOOSE j \in hits : \A h \in hits : j <= h

\* the str case of Python's `sub in s`
Contains(sub, s) == Find(s, sub, 1) # 0

\* str.split(sep): every segment between occurrences of sep, empty ones kept
RECURSIVE Split(_, _)
Split(s, sep) ==
  LET j == Find(s, sep, 1)
  IN  IF j = 0 THEN <<s>>
      ELSE <<SubSeq(s, 1, j - 1)>> \o Split(SubSeq(s, j + Len(sep), Len(s)), sep)

\* str.split(sep, 1): at most one cut, at the first occurrence of sep
SplitOnce(s, sep) ==
  LET j == Find(s, sep, 1)
  IN  IF j = 0 THEN <<s>>
      ELSE <<SubSeq(s, 1, j - 1), SubSeq(s, j + Len(sep), Len(s))>>

\* the whitespace characters str.strip() removes, of those that occur in the
\* texts explored
Whitespace == {" ", "\t", "\n", "\r", "\f"}

\* str.strip()
Strip(s) ==
  LET keep == { j \in 1..Len(s) : s[j] \notin Whitespace }
  IN  IF keep = {} THEN <<>>
      ELSE SubSeq(s, CHOOSE j \in keep : \A h \in keep : j <= h,
                     CHOOSE j \in keep : \A h \in keep : j >= h)

\* str.replace(old, new): every non-overlapping occurrence, left to right
RECURSIVE Replace(_, _, _)
Replace(s, old, new) ==
  LET j == Find(s, old, 1)
  IN  IF j = 0 THEN s
      ELSE SubSeq(s, 1, j - 1) \o new
             \o Replace(SubSeq(s, j + Len(old), Len(s)), old, new)

UpperCase == <<"A","B","C","D","E","F","G","H","I","J","K","L","M","N","O","P","Q","R","S","T","U","V","W","X","Y","Z">>
LowerCase == <<"a","b","c","d","e","f","g","h","i","j","k","l","m","n","o","p","q","r","s","t","u","v","w","x","y","z">>

\* str.lower() on ASCII text
Lower(s) ==
  [ j \in 1..Len(s) |->
      IF \E u \in 1..Len(UpperCase) : UpperCase[u] = s[j]
      THEN LowerCase[CHOOSE u \in 1..Len(UpperCase) : UpperCase[u] = s[j]]
      ELSE s[j] ]

\* -------------------------------------------------------------------------
\* Python values and exceptions
\* -------------------------------------------------------------------------

None == [k |-> "NoneType"]
Str(s) == [k |-> "str", s |-> s]
Int(n) == [k |-> "int", n |-> n]
Bool(b) == [k |-> "bool", b |-> b]
NaN == [k |-> "float"]
Dict(o) == [k |-> "dict", o |-> o]
List(l) == [k |-> "list", l |-> l]
Raise(exc) == [k |-> "raise", exc |-> exc]

EmptyDict == Dict([key \in {} |-> None])

IsRaise(v) == v.k = "raise"

\* bool(v): None, "", 0, False, {} and [] are falsy
Truthy(v) ==
  CASE v.k = "NoneType" -> FALSE
    [] v.k = "str" -> v.s # <<>>
    [] v.k = "int" -> v.n # 0
    [] v.k = "bool" -> v.b
    [] v.k = "dict" -> DOMAIN v.o # {}
    [] v.k = "list" -> v.l # <<>>
    [] OTHER -> TRUE

\* d.get(key, default): only a dict has .get; the default stands in for a
\* missing key only, never for a key that is present with the value None
Get(d, key, default) ==
  IF IsRaise(d) THEN d
  ELSE IF d.k # "dict" THEN Raise("AttributeError")
  ELSE IF key \in DOMAIN d.o THEN d.o[key]
  ELSE default

\* a == b for a value against a str literal
EqStr(v, lit) == v.k = "str" /\ v.s = lit

\* -------------------------------------------------------------------------
\* base64.b64decode(s) and bytes.decode('utf-8')
\* -------------------------------------------------------------------------

B64Alphabet == <<"A","B","C","D","E","F","G","H","I","J","K","L","M","N","O","P","Q","R","S","T","U","V","W","X","Y","Z","a","b","c","d","e","f","g","h","i","j","k","l","m","n","o","p","q","r","s","t","u","v","w","x","y","z","0","1","2","3","4","5","6","7","8","9","+","/">>

IsB64Char(c) == \E j \in 1..Len(B64Alphabet) : B64Alphabet[j] = c

B64Value(c) == (CHOOSE j \in 1..Len(B64Alphabet) : B64Alphabet[j] = c) - 1

\* binascii.a2b_base64 in its default, non-strict mode: characters outside the
\* alphabet are skipped, a completed run of "=" ends the decoding, and input
\* that ends inside a group of four is an error
RECURSIVE a2b_base64(_, _, _, _, _, _)
a2b_base64(s, i, quad_pos, leftchar, pads, out) ==
  IF i > Len(s)
  THEN IF quad_pos # 0 THEN Raise("binascii.Error") ELSE [k |-> "bytes", b |-> out]
  ELSE IF s[i] = "="
  THEN IF quad_pos >= 2 /\ quad_pos + pads + 1 >= 4
       THEN [k |-> "bytes", b |-> out]
       ELSE a2b_base64(s, i + 1, quad_pos, leftchar,
                       IF quad_pos >= 2 THEN pads + 1 ELSE pads, out)
  ELSE IF ~IsB64Char(s[i])
  THEN a2b_base64(s, i + 1, quad_pos, leftchar, pads, out)
  ELSE LET v == B64Value(s[i]) IN
       CASE quad_pos = 0 -> a2b_base64(s, i + 1, 1, v, 0, out)
         [] quad_pos = 1 ->
              a2b_base64(s, i + 1, 2, v % 16, 0,
                         Append(out, leftchar * 4 + v \div 16))
         [] quad_pos = 2 ->
              a2b_base64(s, i + 1, 3, v % 4, 0,
                         Append(out, leftchar * 16 + v \div 4))
         [] OTHER ->
              a2b_base64(s, i + 1, 0, 0, 0, Append(out, leftchar * 64 + v))

b64decode(s) == a2b_base64(s, 1, 0, 0, 0, <<>>)

\* the characters of the code points 32..126
\* (the grave accent, code point 96, is written by its name)
AsciiPrintable ==
  <<" ","!","\"","#","$","%","&","'","(",")","*","+",",","-",".","/","0","1","2","3","4","5","6","7","8","9",":",";","<","=",">","?","@","A","B","C","D","E","F","G","H","I","J","K","L","M","N","O","P","Q","R","S","T","U","V","W","X","Y","Z","[","\\","]","^","_">>
    \o <<"grave">> \o <<"a","b","c","d","e","f","g","h","i","j","k","l","m","n","o","p","q","r","s","t","u","v","w","x","y","z","{","|","}","~">>

\* bytes.decode('utf-8'). Bytes below 128 are their ASCII characters (a control
\* character is written by its code); a byte of 128 or more is reported as a
\* UnicodeDecodeError: the decoder either does so or yields a non-ASCII
\* character, and both end in the same place, since no decoded text with such
\* a character equals the ASCII credentials configured here.
decode_utf8(bytes) ==
  IF IsRaise(bytes) THEN bytes
  ELSE IF \E j \in 1..Len(bytes.b) : bytes.b[j] >= 128
  THEN Raise("UnicodeDecodeError")
  ELSE Str([ j \in 1..Len(bytes.b) |->
               IF bytes.b[j] >= 32 /\ bytes.b[j] <= 126
               THEN AsciiPrintable[bytes.b[j] - 31]
               ELSE <<"chr", bytes.b[j]>> ])

\* -------------------------------------------------------------------------
\* json.loads
\* -------------------------------------------------------------------------
\* The text of a request body is kept as its sequence of lexemes: the
\* punctuation, string and number literals, the constants null, true and
\* false, the literal NaN, and "word" for a run of characters that is no JSON
\* lexeme at all. json.loads is the parser over them.

JsonText(lex) == [k |-> "str", lex |-> lex]

LBrace == [t |-> "{"]
RBrace == [t |-> "}"]
LBracket == [t |-> "["]
RBracket == [t |-> "]"]
Colon == [t |-> ":"]
Comma == [t |-> ","]
LexStr(s) == [t |-> "string", s |-> s]
LexInt(n) == [t |-> "number", n |-> n]
LexNull == [t |-> "null"]
LexTrue == [t |-> "true"]
LexFalse == [t |-> "false"]
LexNaN == [t |-> "NaN"]
LexWord == [t |-> "word"]

NoValue == [ok |-> FALSE]
Parsed(v, end) == [ok |-> TRUE, v |-> v, end |-> end]

RECURSIVE scan_once(_, _)
RECURSIVE JSONObject(_, _, _)
RECURSIVE JSONArray(_, _, _)

\* json.scanner.py_make_scanner._scan_once: the value that starts at lexeme i.
\* The decoder accepts the literal NaN (parse_constant), which JSON does not.
scan_once(lex, i) ==
  IF i > Len(lex) THEN NoValue
  ELSE CASE lex[i].t = "string" -> Parsed(Str(lex[i].s), i + 1)
         [] lex[i].t = "number" -> Parsed(Int(lex[i].n), i + 1)
         [] lex[i].t = "null" -> Parsed(None, i + 1)
         [] lex[i].t = "true" -> Parsed(Bool(TRUE), i + 1)
         [] lex[i].t = "false" -> Parsed(Bool(FALSE), i + 1)
         [] lex[i].t = "NaN" -> Parsed(NaN, i + 1)
         [] lex[i].t = "{" ->
              IF i + 1 <= Len(lex) /\ lex[i + 1].t = "}"
              THEN Parsed(EmptyDict, i + 2)
              ELSE JSONObject(lex, i + 1, EmptyDict.o)
         [] lex[i].t = "[" ->
              IF i + 1 <= Len(lex) /\ lex[i + 1].t = "]"
              THEN Parsed(List(<<>>), i + 2)
              ELSE JSONArray(lex, i + 1, <<>>)
         [] OTHER -> NoValue

\* json.decoder.JSONObject: "key": value pairs from lexeme i on; a key that
\* occurs twice keeps its last value
JSONObject(lex, i, pairs) ==
  IF i + 1 > Len(lex) \/ lex[i].t # "string" \/ lex[i + 1].t # ":" THEN NoValue
  ELSE LET r == scan_once(lex, i + 2) IN
       IF ~r.ok \/ r.end > Len(lex) THEN NoValue
       ELSE LET o == (lex[i].s :> r.v) @@ pairs IN
            CASE lex[r.end].t = "}" -> Parsed(Dict(o), r.end + 1)
              [] lex[r.end].t = "," -> JSONObject(lex, r.end + 1, o)
              [] OTHER -> NoValue

\* json.decoder.JSONArray: the elements from lexeme i on
JSONArray(lex, i, items) ==
  LET r == scan_once(lex, i) IN
  IF ~r.ok \/ r.end > Len(lex) THEN NoValue
  ELSE CASE lex[r.end].t = "]" -> Parsed(List(Append(items, r.v)), r.end + 1)
         [] lex[r.end].t = "," -> JSONArray(lex, r.end + 1, Append(items, r.v))
         [] OTHER -> NoValue

\* json.loads(s): s must be text (None is a TypeError); one value and nothing
\* after it, else a JSONDecodeError
json_loads(s) ==
  IF s.k # "str" THEN Raise("TypeError")
  ELSE LET r == scan_once(s.lex, 1) IN
       IF ~r.ok \/ r.end <= Len(s.lex) THEN Raise("JSONDecodeError")
       ELSE r.v

\* -------------------------------------------------------------------------
\* f-strings and the two regular expressions of the formatter
\* -------------------------------------------------------------------------

Digits == <<"0","1","2","3","4","5","6","7","8","9">>

\* str(n) for an int n >= 0
RECURSIVE DecimalText(_)
DecimalText(n) ==
  IF n < 10 THEN <<Digits[n + 1]>>
  ELSE DecimalText(n \div 10) \o <<Digits[(n % 10) + 1]>>

\* str(v), as an f-string field renders v; the repr of a container is kept
\* unrendered, as the one element <<v>>
TextOf(v) ==
  CASE v.k = "str" -> v.s
    [] v.k = "NoneType" -> <<"N","o","n","e">>
    [] v.k = "int" -> DecimalText(v.n)
    [] v.k = "bool" -> IF v.b THEN <<"T","r","u","e">> ELSE <<"F","a","l","s","e">>
    [] v.k = "float" -> <<"n","a","n">>
    [] OTHER -> <<v>>

\* an f-string: the str of each part, joined
RECURSIVE FString(_)
FString(parts) ==
  IF parts = <<>> THEN <<>>
  ELSE TextOf(Head(parts)) \o FString(Tail(parts))

\* "." of a regular expression matches anything but a line feed
NoLineFeed(s, from, to) == \A j \in from..to : s[j] # "\n"

Least(S) == CHOOSE j \in S : \A h \in S : j <= h

\* re.search(r'\[.*?\]\((.*?)\)', s): group 1 of the leftmost match, whose
\* lazy quantifiers take the nearest "](" and then the nearest ")"
MarkdownLink(s) ==
  LET closes(j) == { c \in (j + 2)..Len(s) :
                       s[c] = ")" /\ NoLineFeed(s, j + 2, c - 1) }
      mids(i) == { j \in (i + 1)..(Len(s) - 1) :
                     /\ s[j] = "]" /\ s[j + 1] = "("
                     /\ NoLineFeed(s, i + 1, j - 1)
                     /\ closes(j) # {} }
      opens == { i \in 1..Len(s) : s[i] = "[" /\ mids(i) # {} }
  IN  IF opens = {} THEN [match |-> FALSE]
      ELSE LET j == Least(mids(Least(opens)))
           IN  [match |-> TRUE, group1 |-> SubSeq(s, j + 2, Least(closes(j)) - 1)]

HrefOpen == <<"<","a"," ","h","r","e","f","=","\"">>
HrefClose == <<"\"",">">>

\* re.search(r'<a href="(.*?)">', s): group 1 of the leftmost match
HtmlLink(s) ==
  LET ends(i) == { c \in (i + Len(HrefOpen))..(Len(s) - 1) :
                     /\ SubSeq(s, c, c + 1) = HrefClose
                     /\ NoLineFeed(s, i + Len(HrefOpen), c - 1) }
      opens == { i \in 1..Len(s) :
                   /\ i + Len(HrefOpen) - 1 <= Len(s)
                   /\ SubSeq(s, i, i + Len(HrefOpen) - 1) = HrefOpen
                   /\ ends(i) # {} }
  IN  IF opens = {} THEN [match |-> FALSE]
      ELSE LET i == Least(opens)
           IN  [match |-> TRUE,
                group1 |-> SubSeq(s, i + Len(HrefOpen), Least(ends(i)) - 1)]

\* -------------------------------------------------------------------------
\* format_ado_event_card
\* -------------------------------------------------------------------------

AnyRaise(vals) == \E j \in 1..Len(vals) : IsRaise(vals[j])

\* the exception that unwinds a run of statements: that of the first to raise
FirstRaise(vals) == vals[Least({ j \in 1..Len(vals) : IsRaise(vals[j]) })]

tag_to_find == <<"@","F","r","a","n","c","i","s","c","o"," ","A","l","i","s","s">>

NoCommentText == <<"N","o"," ","c","o","m","m","e","n","t"," ","t","e","x","t"," ","f","o","u","n","d",".">>

\* [part.strip() for part in detailed_text.split('\r\n') if part.strip()]
CommentParts(detailed_text) ==
  LET segments == Split(detailed_text, <<"\r","\n">>)
      stripped == [ j \in 1..Len(segments) |-> Strip(segments[j]) ]
  IN  SelectSeq(stripped, LAMBDA part : part # <<>>)

\* comment_text: the last non-blank segment of the detailed text, else the
\* history field, else a placeholder. The history field is also read when the
\* segment found is itself the "No comment text found." marker.
CommentText(detailed_message_data, resource_fields) ==
  LET detailed_text == Get(detailed_message_data, <<"t","e","x","t">>, None)
      from_detail ==
        IF IsRaise(detailed_text) THEN detailed_text
        ELSE IF ~Truthy(detailed_text) THEN Str(NoCommentText)
        ELSE IF detailed_text.k # "str" THEN Raise("AttributeError")
        ELSE LET parts == CommentParts(detailed_text.s)
             IN  IF parts # <<>> THEN Str(parts[Len(parts)])
                 ELSE Str(NoCommentText)
  IN  IF IsRaise(from_detail) THEN from_detail
      ELSE IF EqStr(from_detail, NoCommentText)
      THEN Get(resource_fields, <<"S","y","s","t","e","m",".","H","i","s","t","o","r","y">>,
               Str(<<"C","o","u","l","d"," ","n","o","t"," ","r","e","t","r","i","e","v","e"," ","c","o","m","m","e","n","t"," ","t","e","x","t",".">>))
      ELSE from_detail

\* tag_to_find in comment_text: a substring test on a str, a membership test
\* on a list or a dict, a TypeError on anything else
TagInComment(comment_text) ==
  CASE comment_text.k = "str" -> Bool(Contains(tag_to_find, comment_text.s))
    [] comment_text.k = "list" ->
         Bool(\E j \in 1..Len(comment_text.l) : comment_text.l[j] = Str(tag_to_find))
    [] comment_text.k = "dict" -> Bool(tag_to_find \in DOMAIN comment_text.o)
    [] OTHER -> Raise("TypeError")

NoLink == <<"#">>

\* work_item_link: the markdown link of the message, else its html link with
\* &amp; unescaped, else the resource's own link, else "#"
WorkItemLink(message_data, resource) ==
  LET markdown_text == Get(message_data, <<"m","a","r","k","d","o","w","n">>, None)
      from_markdown ==
        IF IsRaise(markdown_text) THEN markdown_text
        ELSE IF ~Truthy(markdown_text) THEN Str(NoLink)
        ELSE IF markdown_text.k # "str" THEN Raise("TypeError")
        ELSE IF MarkdownLink(markdown_text.s).match
        THEN Str(MarkdownLink(markdown_text.s).group1)
        ELSE Str(NoLink)
      html_text == Get(message_data, <<"h","t","m","l">>, None)
      from_html ==
        IF IsRaise(from_markdown) \/ ~EqStr(from_markdown, NoLink) THEN from_markdown
        ELSE IF ~Truthy(html_text) THEN Str(NoLink)
        ELSE IF html_text.k # "str" THEN Raise("TypeError")
        ELSE IF HtmlLink(html_text.s).match
        THEN Str(Replace(HtmlLink(html_text.s).group1, <<"&","a","m","p",";">>, <<"&">>))
        ELSE Str(NoLink)
  IN  IF IsRaise(from_html) \/ ~EqStr(from_html, NoLink) THEN from_html
      ELSE Get(Get(Get(resource, <<"_","l","i","n","k","s">>, EmptyDict), <<"h","t","m","l">>, EmptyDict),
               <<"h","r","e","f">>, Get(resource, <<"u","r","l">>, Str(NoLink)))

\* the cardsV2 message: one card with its id, header and one section of widgets
ChatMessage(card_id, card_header, widgets) ==
  [k |-> "chat_message", cardId |-> card_id, header |-> card_header,
   widgets |-> widgets]

\* the workitem.commented branch
CommentCard(resource, resource_fields, message_data, detailed_message_data, project_name) ==
  LET wi_id == Get(resource, <<"i","d">>, Str(<<"N","/","A">>))
      wi_type == Get(resource_fields, <<"S","y","s","t","e","m",".","W","o","r","k","I","t","e","m","T","y","p","e">>, Str(<<"W","o","r","k"," ","I","t","e","m">>))
      wi_title == Get(resource_fields, <<"S","y","s","t","e","m",".","T","i","t","l","e">>, Str(<<"N","/","A">>))
      commenter == Get(Get(resource_fields, <<"S","y","s","t","e","m",".","C","h","a","n","g","e","d","B","y">>, EmptyDict),
                       <<"d","i","s","p","l","a","y","N","a","m","e">>, Str(<<"U","n","k","n","o","w","n"," ","U","s","e","r">>))
      comment_text == CommentText(detailed_message_data, resource_fields)
      work_item_link == WorkItemLink(message_data, resource)
      tagged == IF IsRaise(comment_text) THEN comment_text
                ELSE TagInComment(comment_text)
      locals == <<commenter, comment_text, work_item_link, tagged>>
  IN  IF AnyRaise(locals) THEN FirstRaise(locals)
      ELSE IF ~tagged.b THEN None
      ELSE ChatMessage(
             FString(<<Str(<<"c","o","m","m","e","n","t","-","w","i","-">>), wi_id, Str(<<"-","r","e","v","-">>),
                       Get(resource, <<"r","e","v">>, Str(<<"N","/","A">>))>>),
             [title |-> FString(<<Str(<<"N","e","w"," ","C","o","m","m","e","n","t"," ","o","n"," ">>), wi_type, Str(<<" ","#">>), wi_id>>),
              subtitle |-> FString(<<wi_title, Str(<<" ","|"," ","B","y",":"," ">>), commenter>>),
              imageUrl |-> <<"h","t","t","p","s",":","/","/","i","m","g",".","i","c","o","n","s","8",".","c","o","m","/","c","o","l","o","r","/","4","8","/","0","0","0","0","0","0","/","c","o","m","m","e","n","t","s",".","p","n","g">>,
              imageType |-> <<"C","I","R","C","L","E">>],
             <<[widget |-> "textParagraph",
                text |-> FString(<<Str(<<"<","b",">","P","r","o","j","e","c","t",":","<","/","b",">"," ">>), project_name>>)],
               [widget |-> "textParagraph",
                text |-> FString(<<Str(<<"<","b",">","C","o","m","m","e","n","t",":","<","/","b",">","\n">>), comment_text>>)]>>
             \o IF ~EqStr(work_item_link, NoLink)
                THEN <<[widget |-> "buttonList", text |-> <<"V","i","e","w"," ","W","o","r","k"," ","I","t","e","m">>,
                        url |-> work_item_link]>>
                ELSE <<>>)

\* resource.get(key, 'N/A').replace('refs/heads/', ''): every occurrence of the
\* prefix text is removed, wherever it stands in the name
BranchName(resource, key) ==
  LET ref == Get(resource, key, Str(<<"N","/","A">>))
  IN  IF IsRaise(ref) THEN ref
      ELSE IF ref.k # "str" THEN Raise("AttributeError")
      ELSE Str(Replace(ref.s, <<"r","e","f","s","/","h","e","a","d","s","/">>, <<>>))

\* the " -> " of the Branches line; the arrow is the one character U+2192
BranchArrow == <<" ", "U+2192", " ">>

\* the git.pullrequest.created branch
PullRequestCard(resource, top_project_name) ==
  LET repo == Get(resource, <<"r","e","p","o","s","i","t","o","r","y">>, EmptyDict)
      repo_name == Get(repo, <<"n","a","m","e">>, Str(<<"N","/","A">>))
      project_name == Get(Get(repo, <<"p","r","o","j","e","c","t">>, EmptyDict), <<"n","a","m","e">>, top_project_name)
      pr_id == Get(resource, <<"p","u","l","l","R","e","q","u","e","s","t","I","d">>, Str(<<"N","/","A">>))
      pr_title == Get(resource, <<"t","i","t","l","e">>, Str(<<"N","/","A">>))
      creator == Get(Get(resource, <<"c","r","e","a","t","e","d","B","y">>, EmptyDict),
                     <<"d","i","s","p","l","a","y","N","a","m","e">>, Str(<<"N","/","A">>))
      source_branch == BranchName(resource, <<"s","o","u","r","c","e","R","e","f","N","a","m","e">>)
      target_branch == BranchName(resource, <<"t","a","r","g","e","t","R","e","f","N","a","m","e">>)
      web_href == Get(Get(Get(resource, <<"_","l","i","n","k","s">>, EmptyDict), <<"w","e","b">>, EmptyDict),
                      <<"h","r","e","f">>, Str(NoLink))
      pr_url == IF IsRaise(web_href) \/ ~EqStr(web_href, NoLink) THEN web_href
                ELSE Get(resource, <<"u","r","l">>, Str(NoLink))
      locals == <<repo_name, project_name, creator, source_branch, target_branch, pr_url>>
  IN  IF AnyRaise(locals) THEN FirstRaise(locals)
      ELSE ChatMessage(
             FString(<<Str(<<"p","r","-">>), pr_id>>),
             [title |-> FString(<<Str(<<"P","u","l","l"," ","R","e","q","u","e","s","t"," ","#">>), pr_id, Str(<<" ","C","r","e","a","t","e","d">>)>>),
              subtitle |-> FString(<<Str(<<"R","e","p","o",":"," ">>), repo_name,
                                     Str(<<" ","|"," ","P","r","o","j","e","c","t",":"," ">>), project_name>>),
              imageUrl |-> <<"h","t","t","p","s",":","/","/","i","m","g",".","i","c","o","n","s","8",".","c","o","m","/","f","l","u","e","n","t","/","4","8","/","0","0","0","0","0","0","/","p","u","l","l","-","r","e","q","u","e","s","t",".","p","n","g">>,
              imageType |-> <<"C","I","R","C","L","E">>],
             <<[widget |-> "decoratedText", topLabel |-> <<"T","i","t","l","e">>, text |-> pr_title],
               [widget |-> "decoratedText", topLabel |-> <<"C","r","e","a","t","e","d"," ","B","y">>, text |-> creator],
               [widget |-> "decoratedText", topLabel |-> <<"B","r","a","n","c","h","e","s">>,
                text |-> source_branch.s \o BranchArrow \o target_branch.s]>>
             \o IF ~EqStr(pr_url, NoLink)
                THEN <<[widget |-> "buttonList", text |-> <<"V","i","e","w"," ","P","u","l","l"," ","R","e","q","u","e","s","t">>,
                        url |-> pr_url]>>
                ELSE <<>>)

\* format_ado_event_card(payload): a chat message, None, or the exception
\* raised on the way
format_ado_event_card(payload) ==
  LET event_type == Get(payload, <<"e","v","e","n","t","T","y","p","e">>, Str(<<"u","n","k","n","o","w","n">>))
      message_data == Get(payload, <<"m","e","s","s","a","g","e">>, EmptyDict)
      detailed_message_data == Get(payload, <<"d","e","t","a","i","l","e","d","M","e","s","s","a","g","e">>, EmptyDict)
      resource == Get(payload, <<"r","e","s","o","u","r","c","e">>, EmptyDict)
      resource_fields == Get(resource, <<"f","i","e","l","d","s">>, EmptyDict)
      team_project == Get(resource_fields, <<"S","y","s","t","e","m",".","T","e","a","m","P","r","o","j","e","c","t">>, None)
      project_name ==
        IF IsRaise(team_project) THEN team_project
        ELSE IF Truthy(team_project) THEN team_project
        ELSE Get(Get(Get(payload, <<"r","e","s","o","u","r","c","e","C","o","n","t","a","i","n","e","r","s">>, EmptyDict),
                     <<"p","r","o","j","e","c","t">>, EmptyDict), <<"n","a","m","e">>, Str(<<"U","n","k","n","o","w","n"," ","P","r","o","j","e","c","t">>))
      locals == <<event_type, resource, resource_fields, project_name>>
  IN  IF AnyRaise(locals) THEN FirstRaise(locals)
      ELSE IF EqStr(event_type, <<"w","o","r","k","i","t","e","m",".","c","o","m","m","e","n","t","e","d">>)
      THEN CommentCard(resource, resource_fields, message_data,
                       detailed_message_data, project_name)
      ELSE IF EqStr(event_type, <<"g","i","t",".","p","u","l","l","r","e","q","u","e","s","t",".","c","r","e","a","t","e","d">>)
      THEN PullRequestCard(resource, project_name)
      ELSE None

\* -------------------------------------------------------------------------
\* send_to_google_chat
\* -------------------------------------------------------------------------

\* what the chat webhook may do with one requests.post: answer with a status
\* code, or fail with a requests exception (connection, timeout) or another one
HttpResponse(status_code) == [k |-> "response", status_code |-> status_code]

NetOutcomes ==
  { HttpResponse(200), HttpResponse(204), HttpResponse(304),
    HttpResponse(404), HttpResponse(500),
    Raise("requests.ConnectionError"), Raise("requests.Timeout"),
    Raise("TypeError") }

RequestExceptions ==
  {"requests.HTTPError", "requests.ConnectionError", "requests.Timeout"}

\* Response.raise_for_status(): an HTTPError for a 4xx or 5xx status only
raise_for_status(response) ==
  IF IsRaise(response) THEN response
  ELSE IF 400 <= response.status_code /\ response.status_code < 600
  THEN Raise("requests.HTTPError")
  ELSE None

\* send_to_google_chat with a second requests.post after a failed one
send_to_google_chat_retrying(url, message_payload, net) ==
  IF ~Truthy(url) THEN [ret |-> FALSE, posts |-> 0]
  ELSE IF ~IsRaise(raise_for_status(net)) THEN [ret |-> TRUE, posts |-> 1]
  ELSE [ret |-> FALSE, posts |-> 2]

\* send_to_google_chat(message_payload) when the webhook does net: the
\* boolean returned and the number of requests.post calls made
send_to_google_chat(url, message_payload, net) ==
  IF ~Truthy(url) THEN [ret |-> FALSE, posts |-> 0]
  ELSE LET raised == raise_for_status(net)
       IN  IF ~IsRaise(raised) THEN [ret |-> TRUE, posts |-> 1]
           ELSE IF raised.exc \in RequestExceptions
           THEN [ret |-> FALSE, posts |-> 1]
           ELSE [ret |-> FALSE, posts |-> 1]

\* -------------------------------------------------------------------------
\* handler: its statements, one operator per stage
\* -------------------------------------------------------------------------

\* the dict handler returns; body is what json.dumps serialises
Response(statusCode, status, message) ==
  [k |-> "response", statusCode |-> statusCode,
   body |-> [status |-> status, message |-> message]]

MethodNotAllowed == Response(405, "error", "Method Not Allowed")
AuthenticationRequired == Response(401, "error", "Authentication Required")
InvalidJson == Response(400, "error", "Invalid JSON payload")
ConfigurationError == Response(500, "error", "Webhook processor configuration error")
InternalError == Response(500, "error", "Internal Server Error processing webhook")
NotificationSent == Response(200, "success", "Webhook received and notification sent")
DeliveryFailed ==
  Response(500, "error", "Webhook received but failed to send notification to Google Chat")
NoNotification == Response(200, "success", "Webhook received, no notification required")

\* the method test with event.get('httpMethod', 'POST'): no method is a POST
IsPost_default(ev) == EqStr(Get(ev, <<"h","t","t","p","M","e","t","h","o","d">>, Str(<<"P","O","S","T">>)), <<"P","O","S","T">>)

\* event.get('httpMethod') == 'POST'
IsPost(ev) == EqStr(Get(ev, <<"h","t","t","p","M","e","t","h","o","d">>, None), <<"P","O","S","T">>)

\* the Basic check of the try block: split off the credentials, decode them,
\* split at the first colon and compare; TRUE, FALSE or the exception raised
CheckCredentials(auth_header, user, pass) ==
  LET encoded_credentials == SplitOnce(auth_header, <<" ">>)[2]
      decoded_credentials == decode_utf8(b64decode(encoded_credentials))
  IN  IF IsRaise(decoded_credentials) THEN decoded_credentials
      ELSE LET pair == SplitOnce(decoded_credentials.s, <<":">>)
           IN  IF Len(pair) # 2 THEN Raise("ValueError")
               ELSE Bool(pair[1] = user.s /\ pair[2] = pass.s)

\* the authentication stage: auth_passed, or the exception that leaves handler
\* (the header lookup and the scheme test stand outside the try block)
Authentication(ev, user, pass) ==
  LET auth_header == Get(Get(ev, <<"h","e","a","d","e","r","s">>, EmptyDict), <<"a","u","t","h","o","r","i","z","a","t","i","o","n">>, None)
  IN  IF IsRaise(auth_header) THEN auth_header
      ELSE IF ~(Truthy(user) /\ Truthy(pass)) THEN Bool(FALSE)
      ELSE IF ~Truthy(auth_header) THEN Bool(FALSE)
      ELSE IF auth_header.k # "str" THEN Raise("AttributeError")
      ELSE IF ~StartsWith(Lower(auth_header.s), <<"b","a","s","i","c"," ">>) THEN Bool(FALSE)
      ELSE LET checked == CheckCredentials(auth_header.s, user, pass)
           IN  IF IsRaise(checked) THEN Bool(FALSE) ELSE checked

\* json.loads(event.get('body', '{}')) and the payload.get of the log line
LoadPayload(ev) ==
  LET payload_string == Get(ev, <<"b","o","d","y">>, JsonText(<<LBrace, RBrace>>))
      payload == json_loads(payload_string)
      logged == Get(payload, <<"e","v","e","n","t","T","y","p","e">>, Str(<<"u","n","k","n","o","w","n">>))
  IN  IF IsRaise(payload) THEN payload
      ELSE IF IsRaise(logged) THEN logged
      ELSE payload

\* -------------------------------------------------------------------------
\* The inbound calls and configurations explored
\* -------------------------------------------------------------------------

\* a key left out of a dict
Absent == [k |-> "absent"]

\* the entry key: v of a dict literal, or no entry when v is Absent
Field(key, v) == IF v.k = "absent" THEN EmptyDict.o ELSE key :> v

RECURSIVE Enumerate(_)
Enumerate(S) ==
  IF S = {} THEN <<>>
  ELSE LET x == CHOOSE x \in S : TRUE IN <<x>> \o Enumerate(S \ {x})

RECURSIVE Dumps(_)
RECURSIVE DumpsItems(_)
RECURSIVE DumpsPairs(_, _)

\* the lexemes of the JSON text of a value, as the sender serialises it
Dumps(v) ==
  CASE v.k = "str" -> <<LexStr(v.s)>>
    [] v.k = "int" -> <<LexInt(v.n)>>
    [] v.k = "NoneType" -> <<LexNull>>
    [] v.k = "bool" -> IF v.b THEN <<LexTrue>> ELSE <<LexFalse>>
    [] v.k = "float" -> <<LexNaN>>
    [] v.k = "list" -> <<LBracket>> \o DumpsItems(v.l) \o <<RBracket>>
    [] v.k = "dict" -> <<LBrace>> \o DumpsPairs(v.o, Enumerate(DOMAIN v.o)) \o <<RBrace>>

DumpsItems(l) ==
  IF l = <<>> THEN <<>>
  ELSE Dumps(Head(l)) \o (IF Len(l) > 1 THEN <<Comma>> ELSE <<>>) \o DumpsItems(Tail(l))

DumpsPairs(o, keys) ==
  IF keys = <<>> THEN <<>>
  ELSE <<LexStr(Head(keys)), Colon>> \o Dumps(o[Head(keys)])
         \o (IF Len(keys) > 1 THEN <<Comma>> ELSE <<>>) \o DumpsPairs(o, Tail(keys))

Tagged == <<"h","i","\r","\n","@","F","r","a","n","c","i","s","c","o"," ","A","l","i","s","s"," ","p","l","e","a","s","e"," ","l","o","o","k","\r","\n">>

\* values of detailedMessage.text of a comment event
DetailedTexts ==
  { Absent, None, Int(7), Str(<<>>),
    Str(Tagged),
    Str(<<"@","F","r","a","n","c","i","s","c","o"," ","A","l","i","s","s","\r","\n","t","h","a","n","k","s">>),
    Str(<<"p","i","n","g"," ","@","f","r","a","n","c","i","s","c","o"," ","a","l","i","s","s">>),
    Str(<<" ","\r","\n">>),
    Str(NoCommentText),
    Str(<<"@","F","r","a","n","c","i","s","c","o"," ","A","l","i","s","s","\n","t","h","a","n","k","s">>) }

\* values of resource.fields["System.History"] of a comment event
Histories ==
  { Absent, None, Int(7), Str(<<"s","e","e"," ","@","F","r","a","n","c","i","s","c","o"," ","A","l","i","s","s">>), Str(<<"f","i","x","e","d">>) }

Ann == Dict(<<"d","i","s","p","l","a","y","N","a","m","e">> :> Str(<<"A","n","n">>))

WorkItem(fields) ==
  Dict(<<"i","d">> :> Int(5) @@ <<"r","e","v">> :> Int(2) @@ Field(<<"f","i","e","l","d","s">>, fields))

\* a workitem.commented event from its four optional parts
CommentEventOf(detailedMessage, message, resource, resourceContainers) ==
  Dict(<<"e","v","e","n","t","T","y","p","e">> :> Str(<<"w","o","r","k","i","t","e","m",".","c","o","m","m","e","n","t","e","d">>)
       @@ Field(<<"d","e","t","a","i","l","e","d","M","e","s","s","a","g","e">>, detailedMessage)
       @@ Field(<<"m","e","s","s","a","g","e">>, message)
       @@ Field(<<"r","e","s","o","u","r","c","e">>, resource)
       @@ Field(<<"r","e","s","o","u","r","c","e","C","o","n","t","a","i","n","e","r","s">>, resourceContainers))

CommentEvent(detailed_text, history) ==
  CommentEventOf(
    IF detailed_text.k = "absent" THEN Absent ELSE Dict(<<"t","e","x","t">> :> detailed_text),
    Absent,
    WorkItem(Dict(Field(<<"S","y","s","t","e","m",".","H","i","s","t","o","r","y">>, history) @@ <<"S","y","s","t","e","m",".","C","h","a","n","g","e","d","B","y">> :> Ann)),
    Absent)

TaggedDetail == Dict(<<"t","e","x","t">> :> Str(Tagged))

\* comment events that carry the mention, with one part missing, null, of
\* another type, or carrying a link
CommentShapes ==
  { CommentEventOf(TaggedDetail, Absent, Absent, Absent),
    CommentEventOf(TaggedDetail, Absent, None, Absent),
    CommentEventOf(TaggedDetail, Absent, Str(<<"w","i">>), Absent),
    CommentEventOf(TaggedDetail, Absent, WorkItem(None), Absent),
    CommentEventOf(TaggedDetail, Absent, WorkItem(Absent), None),
    CommentEventOf(TaggedDetail, Absent, WorkItem(Absent),
                   Dict(<<"p","r","o","j","e","c","t">> :> Dict(<<"n","a","m","e">> :> Str(<<"W","e","b">>)))),
    CommentEventOf(TaggedDetail, Absent,
                   WorkItem(Dict(<<"S","y","s","t","e","m",".","T","e","a","m","P","r","o","j","e","c","t">> :> Str(<<"W","e","b">>))), None),
    CommentEventOf(TaggedDetail, Absent,
                   WorkItem(Dict(<<"S","y","s","t","e","m",".","C","h","a","n","g","e","d","B","y">> :> Str(<<"A","n","n"," ","<","a","n","n","@","x",">">>))), Absent),
    CommentEventOf(TaggedDetail, Absent,
                   WorkItem(Dict(<<"S","y","s","t","e","m",".","C","h","a","n","g","e","d","B","y">> :> None)), Absent),
    CommentEventOf(None, Absent, WorkItem(Absent), Absent),
    CommentEventOf(Str(Tagged), Absent, WorkItem(Absent), Absent),
    CommentEventOf(TaggedDetail, None, WorkItem(Absent), Absent),
    CommentEventOf(TaggedDetail, Dict(<<"m","a","r","k","d","o","w","n">> :> Int(7)), WorkItem(Absent), Absent),
    CommentEventOf(TaggedDetail,
                   Dict(<<"m","a","r","k","d","o","w","n">> :> Str(<<"[","#","5","]","(","u","1",")">>)
                        @@ <<"h","t","m","l">> :> Str(<<"<","a"," ","h","r","e","f","=","\"","u","2","\"",">","#","5","<","/","a",">">>)),
                   WorkItem(Absent), Absent),
    CommentEventOf(TaggedDetail,
                   Dict(<<"m","a","r","k","d","o","w","n">> :> Str(<<"B","u","g"," ","5">>)
                        @@ <<"h","t","m","l">> :> Str(<<"<","a"," ","h","r","e","f","=","\"","u","?","a","&","a","m","p",";","b","\"",">","#","5","<","/","a",">">>)),
                   WorkItem(Absent), Absent),
    CommentEventOf(TaggedDetail, Dict(<<"h","t","m","l">> :> Bool(TRUE)), WorkItem(Absent), Absent),
    CommentEventOf(TaggedDetail, Absent,
                   Dict(<<"u","r","l">> :> Str(<<"u","3">>) @@ <<"_","l","i","n","k","s">> :> None), Absent),
    CommentEventOf(TaggedDetail, Absent,
                   Dict(<<"u","r","l">> :> Str(<<"u","3">>)
                        @@ <<"_","l","i","n","k","s">> :> Dict(<<"h","t","m","l">> :> Dict(<<"h","r","e","f">> :> Str(<<"u","4">>)))),
                   Absent),
    CommentEventOf(TaggedDetail, Absent, Dict(<<"u","r","l">> :> Str(<<"u","3">>)), Absent) }

\* values of resource.sourceRefName and resource.targetRefName of a PR event
SourceRefs ==
  { Absent, None, Int(7),
    Str(<<"r","e","f","s","/","h","e","a","d","s","/","m","a","i","n">>),
    Str(<<"m","a","i","n">>),
    Str(<<"r","e","f","s","/","h","e","a","d","s","/","r","e","f","s","/","h","e","a","d","s","/","x">>),
    Str(<<"f","e","a","t","u","r","e","/","r","e","f","s","/","h","e","a","d","s","/","y">>) }

TargetRefs == { Absent, None, Str(<<"r","e","f","s","/","h","e","a","d","s","/","m","a","i","n">>), Str(<<"r","e","f","s","/","h","e","a","d","s","/","r","e","l","/","r","e","f","s","/","h","e","a","d","s","/","1">>) }

PullRequestEventOf(resource) ==
  Dict(<<"e","v","e","n","t","T","y","p","e">> :> Str(<<"g","i","t",".","p","u","l","l","r","e","q","u","e","s","t",".","c","r","e","a","t","e","d">>) @@ Field(<<"r","e","s","o","u","r","c","e">>, resource))

PullRequestEvent(source, target) ==
  PullRequestEventOf(
    Dict(<<"p","u","l","l","R","e","q","u","e","s","t","I","d">> :> Int(12)
         @@ Field(<<"s","o","u","r","c","e","R","e","f","N","a","m","e">>, source) @@ Field(<<"t","a","r","g","e","t","R","e","f","N","a","m","e">>, target)))

\* PR events with one part missing, null, of another type, or carrying a link
PullRequestShapes ==
  { PullRequestEventOf(Absent),
    PullRequestEventOf(None),
    PullRequestEventOf(List(<<Int(1)>>)),
    PullRequestEventOf(Dict(<<"r","e","p","o","s","i","t","o","r","y">> :> None)),
    PullRequestEventOf(Dict(<<"r","e","p","o","s","i","t","o","r","y">> :>
        Dict(<<"n","a","m","e">> :> Str(<<"w","e","b">>) @@ <<"p","r","o","j","e","c","t">> :> Dict(<<"n","a","m","e">> :> Str(<<"W","e","b">>))))),
    PullRequestEventOf(Dict(<<"r","e","p","o","s","i","t","o","r","y">> :> Dict(<<"p","r","o","j","e","c","t">> :> Str(<<"W","e","b">>)))),
    PullRequestEventOf(Dict(<<"c","r","e","a","t","e","d","B","y">> :> Str(<<"A","n","n">>))),
    PullRequestEventOf(Dict(<<"c","r","e","a","t","e","d","B","y">> :> Ann @@ <<"t","i","t","l","e">> :> None)),
    PullRequestEventOf(Dict(<<"_","l","i","n","k","s">> :> Dict(<<"w","e","b">> :> None))),
    PullRequestEventOf(Dict(<<"_","l","i","n","k","s">> :> Dict(<<"w","e","b">> :> Dict(<<"h","r","e","f">> :> Str(<<"u","5">>))))),
    PullRequestEventOf(Dict(<<"u","r","l">> :> Str(<<"u","6">>))),
    PullRequestEventOf(Dict(<<"f","i","e","l","d","s">> :> Int(0))) }

\* values of eventType outside the two the formatter knows
OtherEventTypes ==
  { Absent, None, Int(1), NaN, Str(<<"b","u","i","l","d",".","c","o","m","p","l","e","t","e">>), Str(<<"W","o","r","k","i","t","e","m",".","C","o","m","m","e","n","t","e","d">>) }

OtherEvent(event_type, resource, message) ==
  Dict(Field(<<"e","v","e","n","t","T","y","p","e">>, event_type) @@ Field(<<"r","e","s","o","u","r","c","e">>, resource)
       @@ Field(<<"m","e","s","s","a","g","e">>, message))

OtherEvents ==
  { OtherEvent(t, r, Absent) :
      t \in OtherEventTypes, r \in { Absent, None, EmptyDict, Str(<<"w","i">>), WorkItem(None) } }
  \cup { OtherEvent(Str(<<"b","u","i","l","d",".","c","o","m","p","l","e","t","e">>), Absent, None),
         Dict(<<"e","v","e","n","t","T","y","p","e">> :> Str(<<"b","u","i","l","d",".","c","o","m","p","l","e","t","e">>) @@ <<"r","e","s","o","u","r","c","e","C","o","n","t","a","i","n","e","r","s">> :> None),
         Dict(<<"e","v","e","n","t","T","y","p","e">> :> Str(<<"b","u","i","l","d",".","c","o","m","p","l","e","t","e">>)
              @@ <<"r","e","s","o","u","r","c","e","C","o","n","t","a","i","n","e","r","s">> :> Dict(<<"p","r","o","j","e","c","t">> :> Int(3))) }

\* JSON documents that are not an object
NonObjects == { None, NaN, Int(3), Bool(TRUE), Str(<<"w","o","r","k","i","t","e","m",".","c","o","m","m","e","n","t","e","d">>), List(<<Int(1)>>), List(<<>>) }

Documents ==
  { CommentEvent(d, h) : d \in DetailedTexts, h \in Histories }
  \cup CommentShapes
  \cup { PullRequestEvent(s, t) : s \in SourceRefs, t \in TargetRefs }
  \cup PullRequestShapes
  \cup OtherEvents
  \cup NonObjects

\* texts no JSON parser may accept: empty, a bare word, an unclosed object, a
\* trailing comma, a missing colon, a value after the document, a bare key
Malformed ==
  { <<>>,
    <<LexWord>>,
    <<LBrace>>,
    <<LBrace, LexStr(<<"e","v","e","n","t","T","y","p","e">>), Colon, LexStr(<<"w","o","r","k","i","t","e","m",".","c","o","m","m","e","n","t","e","d">>), Comma, RBrace>>,
    <<LBrace, LexStr(<<"e","v","e","n","t","T","y","p","e">>), LexStr(<<"w","o","r","k","i","t","e","m",".","c","o","m","m","e","n","t","e","d">>), RBrace>>,
    <<LBrace, RBrace, LBrace, RBrace>>,
    <<LBrace, LexWord, Colon, LexInt(1), RBrace>>,
    <<LBracket, LexInt(1), Comma, RBracket>> }

\* values of event['body']: absent, None, or a text
Bodies ==
  { Absent, None }
  \cup { JsonText(Dumps(d)) : d \in Documents }
  \cup { JsonText(lex) : lex \in Malformed }

GoodCredentials == Str(<<"B","a","s","i","c"," ","Y","W","R","v","O","n","M","z","O","m","N","y">>)

\* values of headers['authorization']; YWRvOnMzOmNy is base64 of ado:s3:cr
AuthorizationValues ==
  { Absent, None, Int(5), Str(<<>>),
    GoodCredentials,
    Str(<<"b","a","s","i","c"," ","Y","W","R","v","O","n","M","z","O","m","N","y">>),
    Str(<<"B","A","S","I","C"," ","Y","W","R","v"," ","O","n","M","z"," ","O","m","N","y","=","=","=","=">>),
    Str(<<"B","a","s","i","c"," ","Y","W","R","v","O","n","M","z">>),
    Str(<<"B","a","s","i","c"," ","Y","m","9","i","O","n","M","z","O","m","N","y">>),
    Str(<<"B","a","s","i","c"," ","Y","W","R","v","c","z","N","j","c","g","=","=">>),
    Str(<<"B","a","s","i","c"," ","O","n","M","z","O","m","N","y">>),
    Str(<<"B","a","s","i","c"," ","Y","W","R","v","O","g","=","=">>),
    Str(<<"B","a","s","i","c"," ","Y","W","R","v","O","n","M","z","O","m","N">>),
    Str(<<"B","a","s","i","c"," ","Y">>),
    Str(<<"B","a","s","i","c"," ","/","w","=","=">>),
    Str(<<"B","a","s","i","c"," ">>),
    Str(<<"B","a","s","i","c">>),
    Str(<<"B","a","s","i","c","Y","W","R","v","O","n","M","z","O","m","N","y">>),
    Str(<<"B","e","a","r","e","r"," ","Y","W","R","v","O","n","M","z","O","m","N","y">>),
    Str(<<"a","d","o",":","s","3",":","c","r">>) }

\* values of event['headers']
HeaderValues ==
  { Absent, None, Str(<<"a","u","t","h","o","r","i","z","a","t","i","o","n">>),
    Dict(<<"A","u","t","h","o","r","i","z","a","t","i","o","n">> :> GoodCredentials) }
  \cup { Dict(Field(<<"a","u","t","h","o","r","i","z","a","t","i","o","n">>, a)) : a \in AuthorizationValues }

GoodHeaders == Dict(<<"a","u","t","h","o","r","i","z","a","t","i","o","n">> :> GoodCredentials)

\* values of event['httpMethod']
Methods == { Absent, None, Str(<<"P","O","S","T">>), Str(<<"G","E","T">>), Str(<<"p","o","s","t">>) }

Event(method, headers, body) ==
  Dict(Field(<<"h","t","t","p","M","e","t","h","o","d">>, method) @@ Field(<<"h","e","a","d","e","r","s">>, headers)
       @@ Field(<<"b","o","d","y">>, body))

SampleBodies ==
  { Absent,
    JsonText(<<LexWord>>),
    JsonText(Dumps(CommentEvent(Str(Tagged), Absent))),
    JsonText(Dumps(OtherEvent(Str(<<"b","u","i","l","d",".","c","o","m","p","l","e","t","e">>), Absent, Absent))) }

\* every body in a POST with the good credentials, and every method with
\* every headers value on a few bodies
Events ==
  { Event(Str(<<"P","O","S","T">>), GoodHeaders, b) : b \in Bodies }
  \cup { Event(m, h, b) : m \in Methods, h \in HeaderValues, b \in SampleBodies }

\* os.environ.get(name): None when unset, else the text set
UrlSettings == { None, Str(<<>>), Str(<<"h","t","t","p","s",":","/","/","c","h","a","t","/","h","o","o","k">>) }
UserSettings == { None, Str(<<>>), Str(<<"a","d","o">>) }
PassSettings == { None, Str(<<>>), Str(<<"s","3",":","c","r">>) }

\* -------------------------------------------------------------------------
\* One inbound call, stage by stage
\* -------------------------------------------------------------------------

VARIABLES
  GOOGLE_CHAT_WEBHOOK_URL,  \* the three module globals read from the
  ADO_WEBHOOK_USER,         \* environment at import, never written again
  ADO_WEBHOOK_PASS,
  event,          \* the argument of handler
  pc,             \* the stage handler is at
  auth_passed,    \* the locals of handler
  payload,
  chat_payload,
  send_success,
  result,         \* Running, the dict returned, or the exception that escaped
  stages,         \* the stages this call has gone through
  posts,          \* requests.post calls made by this call
  delivery        \* what the chat webhook did with the post, if one was made

vars == <<GOOGLE_CHAT_WEBHOOK_URL, ADO_WEBHOOK_USER, ADO_WEBHOOK_PASS, event, pc,
          auth_passed, payload, chat_payload, send_success, result, stages,
          posts, delivery>>

config == <<GOOGLE_CHAT_WEBHOOK_URL, ADO_WEBHOOK_USER, ADO_WEBHOOK_PASS>>

Running == [k |-> "running"]

\* the module is imported: the configuration is read, no call has come yet
Init ==
  /\ GOOGLE_CHAT_WEBHOOK_URL \in UrlSettings
  /\ ADO_WEBHOOK_USER \in UserSettings
  /\ ADO_WEBHOOK_PASS \in PassSettings
  /\ event = None
  /\ pc = "idle"
  /\ auth_passed = FALSE
  /\ payload = None
  /\ chat_payload = None
  /\ send_success = FALSE
  /\ result = Running
  /\ stages = {}
  /\ posts = 0
  /\ delivery = None

\* handler(event, context) is called. Calls share nothing but the read-only
\* configuration, so one call is followed from its start to its end.
Invoke ==
  /\ pc = "idle"
  /\ \E ev \in Events : event' = ev
  /\ pc' = "method"
  /\ UNCHANGED <<config, auth_passed, payload, chat_payload, send_success,
                 result, stages, posts, delivery>>

\* handler returns response
Return(response) ==
  /\ result' = response
  /\ pc' = "done"

\* the method check
CheckMethod ==
  /\ pc = "method"
  /\ IF IsPost(event)
     THEN pc' = "auth" /\ UNCHANGED result
     ELSE Return(MethodNotAllowed)
  /\ UNCHANGED <<config, event, auth_passed, payload, chat_payload, send_success,
                 stages, posts, delivery>>

\* Basic authentication
Authenticate ==
  /\ pc = "auth"
  /\ stages' = stages \cup {"authenticate"}
  /\ LET passed == Authentication(event, ADO_WEBHOOK_USER, ADO_WEBHOOK_PASS)
     IN  IF IsRaise(passed)
         THEN Return(passed) /\ UNCHANGED auth_passed
         ELSE /\ auth_passed' = passed.b
              /\ IF passed.b
                 THEN pc' = "parse" /\ UNCHANGED result
                 ELSE Return(AuthenticationRequired)
  /\ UNCHANGED <<config, event, payload, chat_payload, send_success, posts, delivery>>

\* the body is parsed; a JSONDecodeError has its own except clause
ParseBody ==
  /\ pc = "parse"
  /\ stages' = stages \cup {"parse"}
  /\ LET loaded == LoadPayload(event)
     IN  IF ~IsRaise(loaded)
         THEN payload' = loaded /\ pc' = "config" /\ UNCHANGED result
         ELSE /\ UNCHANGED payload
              /\ IF loaded.exc = "JSONDecodeError"
                 THEN Return(InvalidJson)
                 ELSE Return(InternalError)
  /\ UNCHANGED <<config, event, auth_passed, chat_payload, send_success, posts, delivery>>

\* the chat webhook URL must be configured before anything is formatted
CheckConfiguration ==
  /\ pc = "config"
  /\ IF Truthy(GOOGLE_CHAT_WEBHOOK_URL)
     THEN pc' = "format" /\ UNCHANGED result
     ELSE Return(ConfigurationError)
  /\ UNCHANGED <<config, event, auth_passed, payload, chat_payload, send_success,
                 stages, posts, delivery>>

\* the event is formatted; without a message the call ends here
Format ==
  /\ pc = "format"
  /\ stages' = stages \cup {"format"}
  /\ LET formatted == format_ado_event_card(payload)
     IN  IF IsRaise(formatted)
         THEN Return(InternalError) /\ UNCHANGED chat_payload
         ELSE /\ chat_payload' = formatted
              /\ IF Truthy(formatted)
                 THEN pc' = "send" /\ UNCHANGED result
                 ELSE Return(NoNotification)
  /\ UNCHANGED <<config, event, auth_passed, payload, send_success, posts, delivery>>

\* the message is sent, the chat webhook does as it will (net), and the call ends
Send ==
  /\ pc = "send"
  /\ stages' = stages \cup {"send"}
  /\ \E net \in NetOutcomes :
       LET sent == send_to_google_chat(GOOGLE_CHAT_WEBHOOK_URL, chat_payload, net)
       IN  /\ send_success' = sent.ret
           /\ posts' = posts + sent.posts
           /\ delivery' = IF sent.posts > 0 THEN net ELSE delivery
           /\ IF sent.ret THEN Return(NotificationSent) ELSE Return(DeliveryFailed)
  /\ UNCHANGED <<config, event, auth_passed, payload, chat_payload>>

Next ==
  \/ Invoke
  \/ CheckMethod
  \/ Authenticate
  \/ ParseBody
  \/ CheckConfiguration
  \/ Format
  \/ Send

Spec == Init /\ [][Next]_vars

TypeOK ==
  /\ pc \in {"idle", "method", "auth", "parse", "config", "format", "send", "done"}
  /\ result.k \in {"running", "response", "raise"}
  /\ posts \in 0..2
  /\ stages \subseteq {"authenticate", "parse", "format", "send"}

\* -------------------------------------------------------------------------
\* The properties
\* -------------------------------------------------------------------------

Done == pc = "done"

\* the call's httpMethod is the text POST
MethodIsPost ==
  /\ event.k = "dict"
  /\ <<"h","t","t","p","M","e","t","h","o","d">> \in DOMAIN event.o
  /\ event.o[<<"h","t","t","p","M","e","t","h","o","d">>].k = "str"
  /\ event.o[<<"h","t","t","p","M","e","t","h","o","d">>].s = <<"P","O","S","T">>

\* the call carries the configured credentials
CarriesGoodCredentials ==
  /\ <<"h","e","a","d","e","r","s">> \in DOMAIN event.o
  /\ event.o[<<"h","e","a","d","e","r","s">>] = GoodHeaders

FullyConfigured ==
  /\ ADO_WEBHOOK_USER = Str(<<"a","d","o">>)
  /\ ADO_WEBHOOK_PASS = Str(<<"s","3",":","c","r">>)
  /\ Truthy(GOOGLE_CHAT_WEBHOOK_URL)

\* C1: a call whose httpMethod is not POST (or is absent) is answered 405
\* whatever its headers, its body and the configuration, and goes through no
\* authentication, parsing, formatting or delivery stage.
C1_NonPostIs405 ==
  (pc # "idle" /\ ~MethodIsPost) =>
    /\ pc \in {"method", "done"}
    /\ stages = {}
    /\ posts = 0
    /\ Done => result = MethodNotAllowed

\* a GET with the right credentials, everything configured, answered 405
C1_Witness ==
  /\ Done
  /\ FullyConfigured
  /\ CarriesGoodCredentials
  /\ <<"h","t","t","p","M","e","t","h","o","d">> \in DOMAIN event.o
  /\ event.o[<<"h","t","t","p","M","e","t","h","o","d">>] = Str(<<"G","E","T">>)
  /\ stages = {}
  /\ result.statusCode = 405

\* the authorization header, None when there is none to read
HeaderOfCall ==
  IF <<"h","e","a","d","e","r","s">> \notin DOMAIN event.o THEN None
  ELSE IF event.o[<<"h","e","a","d","e","r","s">>].k # "dict" THEN None
  ELSE IF <<"a","u","t","h","o","r","i","z","a","t","i","o","n">> \notin DOMAIN event.o[<<"h","e","a","d","e","r","s">>].o THEN None
  ELSE event.o[<<"h","e","a","d","e","r","s">>].o[<<"a","u","t","h","o","r","i","z","a","t","i","o","n">>]

\* both values configured, a Basic header whose payload decodes, splits at the
\* first colon and equals the configured pair
CredentialsValid ==
  /\ Truthy(ADO_WEBHOOK_USER) /\ Truthy(ADO_WEBHOOK_PASS)
  /\ HeaderOfCall.k = "str"
  /\ StartsWith(Lower(HeaderOfCall.s), <<"b","a","s","i","c"," ">>)
  /\ LET text == decode_utf8(b64decode(SubSeq(HeaderOfCall.s, 7, Len(HeaderOfCall.s))))
     IN  /\ ~IsRaise(text)
         /\ \E j \in 1..Len(text.s) :
              /\ text.s[j] = ":"
              /\ \A h \in 1..(j - 1) : text.s[h] # ":"
              /\ SubSeq(text.s, 1, j - 1) = ADO_WEBHOOK_USER.s
              /\ SubSeq(text.s, j + 1, Len(text.s)) = ADO_WEBHOOK_PASS.s

\* C2: a POST passes authentication exactly when its credentials are valid;
\* every other POST is answered 401 and goes no further.
C2_AuthIffValid ==
  (Done /\ MethodIsPost) =>
    IF CredentialsValid
    THEN auth_passed /\ "parse" \in stages
    ELSE result = AuthenticationRequired /\ stages = {"authenticate"}

\* the body of the call is a text
BodyIsText ==
  /\ <<"b","o","d","y">> \in DOMAIN event.o
  /\ event.o[<<"b","o","d","y">>].k = "str"

\* JSON proper (RFC 8259): what the decoder accepts, less the literal NaN
ValidJson(body) ==
  /\ ~IsRaise(json_loads(body))
  /\ \A j \in 1..Len(body.lex) : body.lex[j].t # "NaN"

\* C3: an authenticated POST whose body is not valid JSON is answered 400
\* "Invalid JSON payload", whatever the chat webhook URL setting, and nothing
\* is sent.
C3_InvalidJsonIs400 ==
  (Done /\ auth_passed /\ BodyIsText /\ ~ValidJson(event.o[<<"b","o","d","y">>])) =>
    result = InvalidJson /\ posts = 0

\* the call's body is a valid JSON object, or there is no body (the default {})
ValidJsonEvent ==
  IF <<"b","o","d","y">> \notin DOMAIN event.o THEN TRUE
  ELSE /\ BodyIsText
       /\ ValidJson(event.o[<<"b","o","d","y">>])
       /\ json_loads(event.o[<<"b","o","d","y">>]).k = "dict"

EventOfCall ==
  IF <<"b","o","d","y">> \notin DOMAIN event.o THEN EmptyDict ELSE json_loads(event.o[<<"b","o","d","y">>])

EventTypeIs(doc, name) ==
  /\ <<"e","v","e","n","t","T","y","p","e">> \in DOMAIN doc.o
  /\ doc.o[<<"e","v","e","n","t","T","y","p","e">>].k = "str"
  /\ doc.o[<<"e","v","e","n","t","T","y","p","e">>].s = name

\* C4: an authenticated POST with a valid JSON event of an unrecognized (or
\* absent) eventType is answered 200 "no notification required" and nothing is
\* sent, in every configuration, the chat webhook URL unset included.
C4_UnrecognizedIsNoNotification ==
  (/\ Done /\ auth_passed /\ ValidJsonEvent
   /\ ~EventTypeIs(EventOfCall, <<"w","o","r","k","i","t","e","m",".","c","o","m","m","e","n","t","e","d">>)
   /\ ~EventTypeIs(EventOfCall, <<"g","i","t",".","p","u","l","l","r","e","q","u","e","s","t",".","c","r","e","a","t","e","d">>)) =>
    result = NoNotification /\ posts = 0

\* the value at a path of keys in a document, None where the path breaks off
RECURSIVE AtPath(_, _)
AtPath(doc, path) ==
  IF path = <<>> THEN doc
  ELSE IF doc.k # "dict" THEN None
  ELSE IF Head(path) \notin DOMAIN doc.o THEN None
  ELSE AtPath(doc.o[Head(path)], Tail(path))

\* the comment text C5 speaks of: the last non-empty segment of the detailed
\* text, else the history field, else a placeholder
ExtractedCommentText(doc) ==
  LET detailed == AtPath(doc, << <<"d","e","t","a","i","l","e","d","M","e","s","s","a","g","e">>, <<"t","e","x","t">> >>)
      history == AtPath(doc, << <<"r","e","s","o","u","r","c","e">>, <<"f","i","e","l","d","s">>, <<"S","y","s","t","e","m",".","H","i","s","t","o","r","y">> >>)
      parts == IF detailed.k = "str" THEN CommentParts(detailed.s) ELSE <<>>
  IN  IF parts # <<>> THEN parts[Len(parts)]
      ELSE IF history.k = "str" THEN history.s
      ELSE <<"C","o","u","l","d"," ","n","o","t"," ","r","e","t","r","i","e","v","e"," ","c","o","m","m","e","n","t"," ","t","e","x","t",".">>

\* the formatter has run on the call's event
Formatted == "format" \in stages /\ Done

MessageProduced == chat_payload.k = "chat_message"

\* C5: for a comment-added event the formatter returns a Chat Message exactly
\* when the extracted comment text contains "@Francisco Aliss".
C5_MessageIffMentioned ==
  (Formatted /\ EventTypeIs(payload, <<"w","o","r","k","i","t","e","m",".","c","o","m","m","e","n","t","e","d">>)) =>
    (MessageProduced <=> Contains(tag_to_find, ExtractedCommentText(payload)))

\* a ref name with its leading refs/heads/ removed and the rest unchanged;
\* N/A for a name that is not there
WithoutLeadingPrefix(ref) ==
  IF ref.k # "str" THEN <<"N","/","A">>
  ELSE IF StartsWith(ref.s, <<"r","e","f","s","/","h","e","a","d","s","/">>)
  THEN SubSeq(ref.s, Len(<<"r","e","f","s","/","h","e","a","d","s","/">>) + 1, Len(ref.s))
  ELSE ref.s

\* C6: for a PR-created event the formatter always returns a Chat Message, and
\* its Branches line shows the source and target ref names with exactly the
\* leading refs/heads/ removed.
C6_PullRequestBranches ==
  (Formatted /\ EventTypeIs(payload, <<"g","i","t",".","p","u","l","l","r","e","q","u","e","s","t",".","c","r","e","a","t","e","d">>)) =>
    /\ MessageProduced
    /\ chat_payload.widgets[3].text =
         WithoutLeadingPrefix(AtPath(payload, << <<"r","e","s","o","u","r","c","e">>, <<"s","o","u","r","c","e","R","e","f","N","a","m","e">> >>))
           \o BranchArrow
           \o WithoutLeadingPrefix(AtPath(payload, << <<"r","e","s","o","u","r","c","e">>, <<"t","a","r","g","e","t","R","e","f","N","a","m","e">> >>))

\* the post was answered with a 2xx status
Delivered == delivery.k = "response" /\ 200 <= delivery.status_code /\ delivery.status_code < 300

\* C7: when the event yields a Chat Message, the answer is 200 "notification
\* sent" if the delivery succeeds and 500 "failed to send" if it fails (a
\* non-2xx response, a network or timeout error, any other exception), and
\* send_to_google_chat returns False for every failure.
C7_DeliveryDecidesAnswer ==
  (Done /\ MessageProduced) =>
    /\ result.k = "response"
    /\ send_success = Delivered
    /\ result = IF Delivered THEN NotificationSent ELSE DeliveryFailed

\* C8: a call makes at most one requests.post, and makes it only after it has
\* passed the method check and the authentication, parsed its body and got a
\* Chat Message from the formatter; a call answered 405, 401, 400 or "no
\* notification required" has made none.
C8_AtMostOnePost ==
  /\ posts <= 1
  /\ posts = 1 =>
       /\ MethodIsPost
       /\ CredentialsValid
       /\ stages = {"authenticate", "parse", "format", "send"}
       /\ payload.k = "dict"
       /\ MessageProduced
  /\ (Done /\ result \in {MethodNotAllowed, AuthenticationRequired,
                          InvalidJson, NoNotification}) => posts = 0

\* a delivery that failed, after exactly one post
C8_Witness ==
  /\ Done
  /\ result = DeliveryFailed
  /\ delivery = Raise("requests.Timeout")
  /\ posts = 1

\* C9: the formatter raises on no parsed JSON object, whatever is missing,
\* null or of another type in it.
C9_FormatterNeverRaises ==
  payload.k = "dict" => ~IsRaise(format_ado_event_card(payload))

\* C10: every call ends in a response with status 200, 400, 401, 405 or 500
\* and a body of status and message; no exception leaves handler.
C10_AlwaysAResponse ==
  Done =>
    /\ result.k = "response"
    /\ result.statusCode \in {200, 400, 401, 405, 500}
    /\ result.body.status \in {"success", "error"}
====
